---- MODULE Spec2Model ----
(***************************************************************************)
(* Model of the mock crust network of src/mock_crust/support.rs: the       *)
(* shared Network (registry, packet queue, block/delay sets), the          *)
(* per-node ServiceImpl and the packet protocol between them.              *)
(*                                                                         *)
(* The initial state is the one a test is in after Network::new, one       *)
(* new_service_handle per node (endpoints 0..NumServices-1, node e         *)
(* having the endpoints 0..e as hard coded contacts) and                   *)
(* ServiceImpl::start on each of them.  SpecStale starts the same network  *)
(* after a restart; SpecEndpoints is the endpoint allocator on its own.    *)
(***************************************************************************)
EXTENDS Integers, Sequences, FiniteSets, TLC

\* Bounds of the model.
NumServices == 3
MaxOps == 2
MaxRounds == 2
MaxBlocked == 1
MaxDelayed == 1
MaxPayload == 1
MaxDropped == 1
MaxHanded == 3
UsizeBits == 3
MaxRestarted == 1
MaxDepth == 3       \* make_current calls nested within one another
MaxEntries == 2     \* entries of the connection list a whitelist is asked about

VARIABLES
    services,            \* endpoints whose weak reference still upgrades
    uid,                 \* ServiceImpl.uid, per endpoint
    listening_tcp,       \* ServiceImpl.listening_tcp
    pending_bootstraps,  \* ServiceImpl.pending_bootstraps
    connections,         \* ServiceImpl.connections: sequence of <<uid, endpoint>>
    queue,               \* NetworkImpl.queue: (sender, receiver) -> packets
    blocked_connections, \* NetworkImpl.blocked_connections
    delayed_connections, \* NetworkImpl.delayed_connections
    message_sent,        \* NetworkImpl.message_sent
    phase,               \* "idle" | "polling" | "returned" | "panicked"
    rounds,              \* history: number of Network::poll calls so far
    ops,                 \* history: the calls made since poll last returned
    events,              \* history: events each service's sink got since the last call began
    delivered,           \* history: the packet the last pop_packet returned, if any
    nsent,               \* history: number of packets enqueued so far (serial numbers)
    next_endpoint,       \* NetworkImpl.next_endpoint
    handed,              \* history: the results of gen_endpoint, in order
    enqueued,            \* history: a packet joined the queue since reset_message_sent
    listened,            \* history: services that called start_listening_tcp since they (re)started
    current,             \* the thread-local CURRENT: <<>> (None) or <<handle>>
    frames,              \* history: the make_current calls whose closure is running, outermost first
    got,                 \* history: what the last call on CURRENT did
    whitelist,           \* ServiceImpl.whitelist, per endpoint
    asked                \* history: the last call on a whitelist and its result

vars == <<services, uid, listening_tcp, pending_bootstraps, connections, queue,
          blocked_connections, delayed_connections, message_sent,
          phase, rounds, ops, events, delivered, nsent, next_endpoint, handed, enqueued,
          listened, current, frames, got, whitelist, asked>>

\* What the calls on the network and its services leave alone: the allocator,
\* the thread-local slot and the whitelists.
side == <<next_endpoint, handed, current, frames, got, whitelist, asked>>

\* usize, at the width of the model.
UsizeMax == 2 ^ UsizeBits - 1

Endpoints == 0 .. (NumServices - 1)
Pairs == {k \in Endpoints \X Endpoints : k[1] # k[2]}
Payloads == 1 .. MaxPayload
CrustUsers == {"Node", "Client"}

\* The role service e bootstraps in: the last node created is a client.
BootstrapKind(e) == IF e = NumServices - 1 THEN "Client" ELSE "Node"

\* The identity service e is started with, the one it is restarted with, and
\* one it went by before (in the states of InitStale).
InitUid(e) == 100 + e
RestartUid(e) == 200 + e
StaleUid(e) == 300 + e
Uids ==
    {InitUid(e) : e \in Endpoints} \cup {RestartUid(e) : e \in Endpoints}
        \cup {StaleUid(e) : e \in Endpoints}

\* Config::with_contacts: every node is configured with the endpoints handed
\* out so far, its own (the last of them) included.
hard_coded_contacts(e) == [i \in 1 .. (e + 1) |-> i - 1]

\* to_socket_addr: the endpoint becomes the port (a u16) of a fixed address.
to_socket_addr(e) == [ip |-> <<123, 123, 255, 255>>, port |-> e % 65536]

\* The blacklists start_bootstrap is called with: none, or the first node's address.
Blacklists == {{}, {to_socket_addr(0)}}

(***************************************************************************)
(* Packets and events.                                                     *)
(***************************************************************************)
BootstrapRequest(u, k) == [kind |-> "BootstrapRequest", a |-> u, user |-> k]
BootstrapSuccess(u) == [kind |-> "BootstrapSuccess", a |-> u]
BootstrapFailure == [kind |-> "BootstrapFailure"]
ConnectRequest(u, v) == [kind |-> "ConnectRequest", a |-> u, b |-> v]
ConnectSuccess(u, v) == [kind |-> "ConnectSuccess", a |-> u, b |-> v]
ConnectFailure(u, v) == [kind |-> "ConnectFailure", a |-> u, b |-> v]
Message(d) == [kind |-> "Message", data |-> d]
Disconnect == [kind |-> "Disconnect"]

\* to_failure that keeps the order of the identities of a connect request.
to_failure_same_order(p) ==
    CASE p.kind = "BootstrapRequest" -> <<BootstrapFailure>>
      [] p.kind = "ConnectRequest" -> <<ConnectFailure(p.a, p.b)>>
      [] OTHER -> <<>>

\* Packet::to_failure: Option as a sequence of length at most one.
to_failure(p) ==
    CASE p.kind = "BootstrapRequest" -> <<BootstrapFailure>>
      [] p.kind = "ConnectRequest" -> <<ConnectFailure(p.b, p.a)>>
      [] OTHER -> <<>>

EvListenerStarted(port) == [ev |-> "ListenerStarted", port |-> port]
EvBootstrapAccept(u, k) == [ev |-> "BootstrapAccept", uid |-> u, user |-> k]
EvBootstrapConnect(u, addr) == [ev |-> "BootstrapConnect", uid |-> u, addr |-> addr]
EvBootstrapFailed == [ev |-> "BootstrapFailed"]
EvConnectSuccess(u) == [ev |-> "ConnectSuccess", uid |-> u]
EvConnectFailure(u) == [ev |-> "ConnectFailure", uid |-> u]
EvLostPeer(u) == [ev |-> "LostPeer", uid |-> u]
EvNewMessage(u, d) == [ev |-> "NewMessage", uid |-> u, data |-> d]

(***************************************************************************)
(* The queue: a map from directed pairs to deques.  A key may hold an      *)
(* empty deque (drop_pending clears the deque and keeps the key).          *)
(***************************************************************************)
EmptyQueue == [k \in {} |-> <<>>]

RemoveKey(q, k) == [x \in DOMAIN q \ {k} |-> q[x]]

\* Whether q2 holds a packet that q does not: serial numbers tell packets apart.
NewItems(q, q2) ==
    \E k \in DOMAIN q2 : \E i \in DOMAIN q2[k] :
        \A x \in DOMAIN q : \A j \in DOMAIN q[x] : q[x][j].sn # q2[k][i].sn

\* A faulty variant of push_back: the packet is put at the front of the deque.
push_front(q, k, item) ==
    IF k \in DOMAIN q THEN [q EXCEPT ![k] = <<item>> \o @]
    ELSE [x \in DOMAIN q \cup {k} |-> IF x = k THEN <<item>> ELSE q[x]]

\* entry(k).or_insert_with(VecDeque::new).push_back(item)
push_back(q, k, item) ==
    IF k \in DOMAIN q THEN [q EXCEPT ![k] = Append(@, item)]
    ELSE [x \in DOMAIN q \cup {k} |-> IF x = k THEN <<item>> ELSE q[x]]

\* Network::drop_pending: the deque is cleared, its key stays in the map.
drop_pending(q, s, r) ==
    IF <<s, r>> \in DOMAIN q THEN [q EXCEPT ![<<s, r>>] = <<>>] ELSE q

\* Network::drop_all_pending
drop_all_pending(q) == EmptyQueue

\* A faulty variant of connection_blocked: a block works in both directions.
connection_blocked_both(s, r) ==
    <<s, r>> \in blocked_connections \/ <<r, s>> \in blocked_connections

\* Network::connection_blocked
connection_blocked(s, r) == <<s, r>> \in blocked_connections

\* Pairs with at least one pending packet.
Pending(q) == {k \in DOMAIN q : q[k] # <<>>}

(***************************************************************************)
(* The mutable state a call works on, threaded through the helpers:        *)
(* conn, pend (services), q, sent (network), and the history ev, n.        *)
(* panic records that the call hit unreachable!() or a failing unwrap!;    *)
(* recv records the                                                        *)
(* arguments receive_packet was called with, if it was.                    *)
(***************************************************************************)
World ==
    [conn |-> connections, pend |-> pending_bootstraps, q |-> queue,
     sent |-> message_sent, ev |-> events, n |-> nsent, panic |-> FALSE,
     recv |-> <<>>]

NoEvents == [e \in Endpoints |-> <<>>]

\* The state a call starts from: each call begins a fresh event record.
\* Serial numbers order the packets in flight: they restart when none is.
CallWorld ==
    [World EXCEPT !.ev = NoEvents,
                  !.n = IF Pending(queue) = {} THEN 0 ELSE nsent]

\* A faulty variant of send: the packet is enqueued, the flag is not raised.
send_unflagged(w, s, r, p) ==
    [w EXCEPT !.q = push_back(w.q, <<s, r>>, [pkt |-> p, sn |-> w.n]),
              !.n = w.n + 1]

\* Network::send
send(w, s, r, p) ==
    [w EXCEPT !.sent = TRUE,
              !.q = push_back(w.q, <<s, r>>, [pkt |-> p, sn |-> w.n]),
              !.n = w.n + 1]

\* ServiceImpl::send_packet
send_packet(w, e, r, p) == send(w, e, r, p)

\* ServiceImpl::send_event
send_event(w, e, event) == [w EXCEPT !.ev[e] = Append(@, event)]

\* iter().position(..): the index of the first entry whose field f (1: the
\* uid, 2: the endpoint) is x, or 0 for None.
position(conn, f, x) ==
    IF \E i \in DOMAIN conn : conn[i][f] = x
    THEN CHOOSE i \in DOMAIN conn :
            conn[i][f] = x /\ \A j \in 1 .. (i - 1) : conn[j][f] # x
    ELSE 0

\* Vec::swap_remove: the last element takes the removed element's place.
swap_remove(seq, i) ==
    [j \in 1 .. (Len(seq) - 1) |-> IF j = i THEN seq[Len(seq)] ELSE seq[j]]

\* A faulty variant of add_connection: the pair is pushed without the check.
add_connection_unchecked(w, e, u, peer) ==
    [w EXCEPT !.conn[e] = Append(@, <<u, peer>>)]

\* ServiceImpl::add_connection
add_connection(w, e, u, peer) ==
    IF \E i \in DOMAIN w.conn[e] : w.conn[e][i] = <<u, peer>>
    THEN w
    ELSE [w EXCEPT !.conn[e] = Append(@, <<u, peer>>)]

\* ServiceImpl::add_rendezvous_connection
add_rendezvous_connection(w, e, u, peer) ==
    send_event(add_connection(w, e, u, peer), e, EvConnectSuccess(u))

\* ServiceImpl::find_endpoint_by_uid: Option as a sequence.
find_endpoint_by_uid(conn, u) ==
    LET i == position(conn, 1, u)
    IN IF i = 0 THEN <<>> ELSE <<conn[i][2]>>

\* ServiceImpl::find_uid_by_endpoint
find_uid_by_endpoint(conn, ep) ==
    LET i == position(conn, 2, ep)
    IN IF i = 0 THEN <<>> ELSE <<conn[i][1]>>

\* ServiceImpl::is_connected
is_connected(conn, ep, u) == \E i \in DOMAIN conn : conn[i] = <<u, ep>>

\* ServiceImpl::is_peer_connected
is_peer_connected(conn, u) == find_endpoint_by_uid(conn, u) # <<>>

\* remove_connection_by_uid with the index of a missing uid defaulting to
\* the first entry.
remove_connection_by_uid_first(conn, u) ==
    LET i == IF position(conn, 1, u) = 0 THEN 1 ELSE position(conn, 1, u)
    IN IF conn = <<>> THEN [conn |-> conn, found |-> <<>>]
       ELSE [conn |-> swap_remove(conn, i), found |-> <<conn[i][2]>>]

\* ServiceImpl::remove_connection_by_uid: the list left and the endpoint removed.
remove_connection_by_uid(conn, u) ==
    LET i == position(conn, 1, u)
    IN IF i = 0 THEN [conn |-> conn, found |-> <<>>]
       ELSE [conn |-> swap_remove(conn, i), found |-> <<conn[i][2]>>]

\* ServiceImpl::remove_connection_by_endpoint: the list left and the uid removed.
remove_connection_by_endpoint(conn, ep) ==
    LET i == position(conn, 2, ep)
    IN IF i = 0 THEN [conn |-> conn, found |-> <<>>]
       ELSE [conn |-> swap_remove(conn, i), found |-> <<conn[i][1]>>]

\* A faulty variant of decrement_pending_bootstraps: the failure is reported
\* without waiting for the count to reach zero.
decrement_pending_bootstraps_each(w, e) ==
    IF w.pend[e] = 0 THEN w
    ELSE LET w1 == [w EXCEPT !.pend[e] = @ - 1]
         IN IF w1.conn[e] = <<>>
            THEN send_event(w1, e, EvBootstrapFailed)
            ELSE w1

\* decrement_pending_bootstraps without the look at the connection list.
decrement_pending_bootstraps_blind(w, e) ==
    IF w.pend[e] = 0 THEN w
    ELSE LET w1 == [w EXCEPT !.pend[e] = @ - 1]
         IN IF w1.pend[e] = 0
            THEN send_event(w1, e, EvBootstrapFailed)
            ELSE w1

\* ServiceImpl::decrement_pending_bootstraps
decrement_pending_bootstraps(w, e) ==
    IF w.pend[e] = 0 THEN w
    ELSE LET w1 == [w EXCEPT !.pend[e] = @ - 1]
         IN IF w1.pend[e] = 0 /\ w1.conn[e] = <<>>
            THEN send_event(w1, e, EvBootstrapFailed)
            ELSE w1

\* ServiceImpl::handle_bootstrap_accept
handle_bootstrap_accept(w, e, peer, u, k) ==
    send_event(add_connection(w, e, u, peer), e, EvBootstrapAccept(u, k))

\* ServiceImpl::handle_bootstrap_request
handle_bootstrap_request(w, e, peer, u, k) ==
    IF listening_tcp[e]
    THEN send_packet(handle_bootstrap_accept(w, e, peer, u, k), e, peer,
                     BootstrapSuccess(uid[e]))
    ELSE send_packet(w, e, peer, BootstrapFailure)

\* A faulty variant of handle_bootstrap_success: the count is decremented
\* before the connection is registered.
handle_bootstrap_success_late(w, e, peer, u) ==
    send_event(add_connection(decrement_pending_bootstraps(w, e), e, u, peer), e,
               EvBootstrapConnect(u, to_socket_addr(peer)))

\* ServiceImpl::handle_bootstrap_success
handle_bootstrap_success(w, e, peer, u) ==
    decrement_pending_bootstraps(
        send_event(add_connection(w, e, u, peer), e,
                   EvBootstrapConnect(u, to_socket_addr(peer))), e)

\* ServiceImpl::handle_bootstrap_failure
handle_bootstrap_failure(w, e, peer) == decrement_pending_bootstraps(w, e)

\* handle_connect_request without the is_connected check.
handle_connect_request_unchecked(w, e, peer, their_id) ==
    send_packet(add_rendezvous_connection(w, e, their_id, peer), e, peer,
                ConnectSuccess(uid[e], their_id))

\* ServiceImpl::handle_connect_request
handle_connect_request(w, e, peer, their_id) ==
    IF is_connected(w.conn[e], peer, their_id) THEN w
    ELSE send_packet(add_rendezvous_connection(w, e, their_id, peer), e, peer,
                     ConnectSuccess(uid[e], their_id))

\* ServiceImpl::handle_connect_success
handle_connect_success(w, e, peer, their_id) ==
    add_rendezvous_connection(w, e, their_id, peer)

\* ServiceImpl::handle_connect_failure
handle_connect_failure(w, e, peer, their_id) ==
    send_event(w, e, EvConnectFailure(their_id))

\* ServiceImpl::handle_message: unreachable!() aborts the run.
handle_message(w, e, peer, data) ==
    LET u == find_uid_by_endpoint(w.conn[e], peer)
    IN IF u # <<>> THEN send_event(w, e, EvNewMessage(u[1], data))
       ELSE [w EXCEPT !.panic = TRUE]

\* A faulty variant of handle_disconnect: the peer is told again.
handle_disconnect_echo(w, e, peer) ==
    LET r == remove_connection_by_endpoint(w.conn[e], peer)
    IN IF r.found # <<>>
       THEN send_packet(send_event([w EXCEPT !.conn[e] = r.conn], e,
                                   EvLostPeer(r.found[1])), e, peer, Disconnect)
       ELSE send_packet(w, e, peer, Disconnect)

\* ServiceImpl::handle_disconnect
handle_disconnect(w, e, peer) ==
    LET r == remove_connection_by_endpoint(w.conn[e], peer)
    IN IF r.found # <<>>
       THEN send_event([w EXCEPT !.conn[e] = r.conn], e, EvLostPeer(r.found[1]))
       ELSE w

\* ServiceImpl::receive_packet, the dispatch.
dispatch(w, e, sender, p) ==
    CASE p.kind = "BootstrapRequest" -> handle_bootstrap_request(w, e, sender, p.a, p.user)
      [] p.kind = "BootstrapSuccess" -> handle_bootstrap_success(w, e, sender, p.a)
      [] p.kind = "BootstrapFailure" -> handle_bootstrap_failure(w, e, sender)
      [] p.kind = "ConnectRequest" -> handle_connect_request(w, e, sender, p.a)
      [] p.kind = "ConnectSuccess" -> handle_connect_success(w, e, sender, p.a)
      [] p.kind = "ConnectFailure" -> handle_connect_failure(w, e, sender, p.a)
      [] p.kind = "Message" -> handle_message(w, e, sender, p.data)
      [] p.kind = "Disconnect" -> handle_disconnect(w, e, sender)

\* ServiceImpl::receive_packet
receive_packet(w, e, sender, p) ==
    dispatch([w EXCEPT !.recv = <<[e |-> e, sender |-> sender, pkt |-> p]>>], e, sender, p)

\* Network::find_service: whether the weak reference upgrades.
find_service(e) == e \in services

\* A faulty variant of process_packet: a packet to a vanished destination is
\* always dropped.
process_packet_no_reply(w, s, r, p) ==
    IF connection_blocked(s, r) /\ to_failure(p) # <<>>
    THEN send(w, r, s, to_failure(p)[1])
    ELSE IF find_service(r) THEN receive_packet(w, r, s, p)
    ELSE w

\* Network::process_packet
process_packet(w, s, r, p) ==
    IF connection_blocked(s, r) /\ to_failure(p) # <<>>
    THEN send(w, r, s, to_failure(p)[1])
    ELSE IF find_service(r) THEN receive_packet(w, r, s, p)
    ELSE IF to_failure(p) # <<>> THEN send(w, r, s, to_failure(p)[1])
    ELSE w

\* A faulty variant of the key selection of pop_packet: delays are ignored.
EligibleKeysAll(q, delayed) == DOMAIN q

\* Network::pop_packet, the keys the rng chooses among.
EligibleKeys(q, delayed) ==
    IF \A k \in DOMAIN q : k \in delayed
    THEN DOMAIN q
    ELSE {k \in DOMAIN q : k \notin delayed}

\* Network::pop_packet, once the key is chosen: the result and the queue left.
pop_front(q, k) ==
    IF q[k] = <<>> THEN [result |-> <<>>, q |-> q]
    ELSE [result |-> <<Head(q[k])>>,
          q |-> IF Len(q[k]) = 1 THEN RemoveKey(q, k)
                ELSE [q EXCEPT ![k] = Tail(@)]]

(***************************************************************************)
(* Calls of the test harness.  A call is made between polls; it is         *)
(* recorded in ops and starts a fresh record of events.                    *)
(***************************************************************************)
\* Whether service x holds a connection entry for endpoint y.
HasEntry(x, y) == find_uid_by_endpoint(connections[x], y) # <<>>

\* The record of a call: its name, the service (or sender) a, the peer (or
\* receiver) endpoint b, the uid argument u if any, what it returned, and
\* whether a held an entry for b (out) and b one for a (inn) when it was made;
\* the blacklist and payload arguments (OpWith); the number of entries a held,
\* whether the queue map was empty, the list of a and the identity a went by
\* when it was made, and whether every entry of that list was mutual (its
\* endpoint a live service holding an entry for a).
Op(name, a, b, u, ret) ==
    [op |-> name, a |-> a, b |-> b, u |-> u, ret |-> ret,
     out |-> HasEntry(a, b), inn |-> HasEntry(b, a),
     bl |-> {}, data |-> 0,
     nconn |-> Len(connections[a]), clean |-> DOMAIN queue = {},
     conns |-> connections[a], me |-> uid[a],
     mutual |-> \A i \in DOMAIN connections[a] :
                   /\ connections[a][i][2] \in services
                   /\ HasEntry(connections[a][i][2], a)]

OpWith(op, blacklist, data) == [op EXCEPT !.bl = blacklist, !.data = data]

CommitState(w) ==
    /\ connections' = w.conn
    /\ pending_bootstraps' = w.pend
    /\ queue' = w.q
    /\ message_sent' = w.sent
    /\ events' = w.ev
    /\ nsent' = w.n
    /\ UNCHANGED side

Commit(w) ==
    /\ CommitState(w)
    /\ enqueued' = (enqueued \/ NewItems(queue, w.q))

Call(op) ==
    /\ phase \in {"idle", "returned"}
    /\ rounds < MaxRounds
    /\ IF phase = "returned" THEN ops' = <<op>>
       ELSE Len(ops) < MaxOps /\ ops' = Append(ops, op)
    /\ delivered' = <<>>
    /\ listened' = CASE op.op = "start_listening_tcp" -> listened \cup {op.a}
                     [] op.op = "restart" -> listened \ {op.a}
                     [] OTHER -> listened
    /\ UNCHANGED rounds

\* The sends of the loop of start_bootstrap.
RECURSIVE bootstrap_sends(_, _, _, _)
bootstrap_sends(w, e, targets, k) ==
    IF targets = <<>> THEN w
    ELSE bootstrap_sends(send_packet(w, e, Head(targets), BootstrapRequest(uid[e], k)),
                         e, Tail(targets), k)

\* A faulty variant of start_bootstrap: the service's own endpoint is not
\* skipped.
start_bootstrap_unfiltered(w, e, blacklist, k) ==
    LET contacts == hard_coded_contacts(e)
        Wanted(c) == to_socket_addr(c) \notin blacklist
        targets == SelectSeq(contacts, Wanted)
        w1 == bootstrap_sends(w, e, targets, k)
        w2 == IF Len(targets) = 0 THEN send_event(w1, e, EvBootstrapFailed) ELSE w1
    IN [w2 EXCEPT !.pend[e] = Len(targets)]

\* ServiceImpl::start_bootstrap
start_bootstrap(w, e, blacklist, k) ==
    LET contacts == hard_coded_contacts(e)
        Wanted(c) == c # e /\ to_socket_addr(c) \notin blacklist
        targets == SelectSeq(contacts, Wanted)
        w1 == bootstrap_sends(w, e, targets, k)
        w2 == IF Len(targets) = 0 THEN send_event(w1, e, EvBootstrapFailed) ELSE w1
    IN [w2 EXCEPT !.pend[e] = Len(targets)]

StartBootstrap(e, blacklist, k) ==
    /\ find_service(e)
    /\ Call(OpWith(Op("start_bootstrap", e, e, 0, TRUE), blacklist, 0))
    /\ phase' = "idle"
    /\ Commit(start_bootstrap(CallWorld, e, blacklist, k))
    /\ UNCHANGED <<services, uid, listening_tcp, blocked_connections, delayed_connections>>

\* ServiceImpl::start_listening_tcp
StartListeningTcp(e, port) ==
    /\ find_service(e)
    /\ Call(Op("start_listening_tcp", e, e, 0, TRUE))
    /\ phase' = "idle"
    /\ listening_tcp' = [listening_tcp EXCEPT ![e] = TRUE]
    /\ Commit(send_event(CallWorld, e, EvListenerStarted(port)))
    /\ UNCHANGED <<services, uid, blocked_connections, delayed_connections>>

\* ServiceImpl::connect; their_info is the info service t prepared.
Connect(e, t) ==
    /\ find_service(e)
    /\ Call(Op("connect", e, t, uid[t], TRUE))
    /\ phase' = "idle"
    /\ Commit(send_packet(CallWorld, e, t, ConnectRequest(uid[e], uid[t])))
    /\ UNCHANGED <<services, uid, listening_tcp, blocked_connections, delayed_connections>>

\* A faulty variant of send_message: the flag is raised before the lookup.
send_message_flagged(w, e, u, data) ==
    LET ep == find_endpoint_by_uid(w.conn[e], u)
    IN IF ep # <<>> THEN send_packet(w, e, ep[1], Message(data))
       ELSE [w EXCEPT !.sent = TRUE]

\* ServiceImpl::send_message
send_message(w, e, u, data) ==
    LET ep == find_endpoint_by_uid(w.conn[e], u)
    IN IF ep # <<>> THEN send_packet(w, e, ep[1], Message(data)) ELSE w

SendMessage(e, u, data) ==
    /\ find_service(e)
    /\ LET ep == find_endpoint_by_uid(connections[e], u)
       IN Call(OpWith(Op("send_message", e, IF ep = <<>> THEN e ELSE ep[1], u, ep # <<>>),
                      {}, data))
    /\ phase' = "idle"
    /\ Commit(send_message(CallWorld, e, u, data))
    /\ UNCHANGED <<services, uid, listening_tcp, blocked_connections, delayed_connections>>

\* A faulty variant of disconnect: only the outgoing direction is dropped.
disconnect_one_way(w, e, u) ==
    LET r == remove_connection_by_uid(w.conn[e], u)
    IN IF r.found # <<>>
       THEN LET ep == r.found[1]
                w1 == [w EXCEPT !.conn[e] = r.conn,
                                !.q = drop_pending(w.q, e, ep)]
            IN send_packet(w1, e, ep, Disconnect)
       ELSE w

\* ServiceImpl::disconnect
disconnect(w, e, u) ==
    LET r == remove_connection_by_uid(w.conn[e], u)
    IN IF r.found # <<>>
       THEN LET ep == r.found[1]
                w1 == [w EXCEPT !.conn[e] = r.conn,
                                !.q = drop_pending(drop_pending(w.q, e, ep), ep, e)]
            IN send_packet(w1, e, ep, Disconnect)
       ELSE w

DisconnectPeer(e, u) ==
    /\ find_service(e)
    /\ LET ep == find_endpoint_by_uid(connections[e], u)
       IN Call(Op("disconnect", e, IF ep = <<>> THEN e ELSE ep[1], u, ep # <<>>))
    /\ phase' = "idle"
    /\ Commit(disconnect(CallWorld, e, u))
    /\ UNCHANGED <<services, uid, listening_tcp, blocked_connections, delayed_connections>>

\* The sends of the loop of disconnect_all.
RECURSIVE disconnect_sends(_, _, _)
disconnect_sends(w, e, conns) ==
    IF conns = <<>> THEN w
    ELSE disconnect_sends(send_packet(w, e, Head(conns)[2], Disconnect), e, Tail(conns))

\* disconnect_all without its drop_all_pending.
disconnect_all_keep_pending(w, e) ==
    disconnect_sends([w EXCEPT !.conn[e] = <<>>], e, w.conn[e])

\* ServiceImpl::disconnect_all
disconnect_all(w, e) ==
    LET w1 == [w EXCEPT !.q = drop_all_pending(w.q), !.conn[e] = <<>>]
    IN disconnect_sends(w1, e, w.conn[e])

DisconnectAll(e) ==
    /\ find_service(e)
    /\ Call(Op("disconnect_all", e, e, 0, TRUE))
    /\ phase' = "idle"
    /\ Commit(disconnect_all(CallWorld, e))
    /\ UNCHANGED <<services, uid, listening_tcp, blocked_connections, delayed_connections>>

\* restart without the reset of the listening flag.
Restart_still_listening(e, u) ==
    /\ find_service(e)
    /\ uid[e] = InitUid(e)
    /\ Cardinality({x \in Endpoints : uid[x] # InitUid(x)}) < MaxRestarted
    /\ Call(Op("restart", e, e, u, TRUE))
    /\ phase' = "idle"
    /\ Commit(disconnect_all(CallWorld, e))
    /\ uid' = [uid EXCEPT ![e] = u]
    /\ UNCHANGED <<services, listening_tcp, blocked_connections, delayed_connections>>

\* ServiceImpl::restart: disconnect_all, then the new identity and sink and
\* the listening flag reset.
Restart(e, u) ==
    /\ find_service(e)
    /\ uid[e] = InitUid(e)
    /\ Cardinality({x \in Endpoints : uid[x] # InitUid(x)}) < MaxRestarted
    /\ Call(Op("restart", e, e, u, TRUE))
    /\ phase' = "idle"
    /\ Commit(disconnect_all(CallWorld, e))
    /\ uid' = [uid EXCEPT ![e] = u]
    /\ listening_tcp' = [listening_tcp EXCEPT ![e] = FALSE]
    /\ UNCHANGED <<services, blocked_connections, delayed_connections>>

\* Drop for ServiceImpl: the owner releases the service.
DropService(e) ==
    /\ find_service(e)
    /\ Cardinality(Endpoints \ services) < MaxDropped
    /\ Call(Op("drop", e, e, 0, TRUE))
    /\ phase' = "idle"
    /\ Commit(disconnect_all(CallWorld, e))
    /\ services' = services \ {e}
    /\ UNCHANGED <<uid, listening_tcp, blocked_connections, delayed_connections>>

\* Network::block_connection
BlockConnection(s, r) ==
    /\ Cardinality(blocked_connections \cup {<<s, r>>}) <= MaxBlocked
    /\ Call(Op("block_connection", s, r, 0, TRUE))
    /\ phase' = "idle"
    /\ blocked_connections' = blocked_connections \cup {<<s, r>>}
    /\ Commit(CallWorld)
    /\ UNCHANGED <<services, uid, listening_tcp, delayed_connections>>

\* Network::unblock_connection, called on a pair that is blocked.
UnblockConnection(s, r) ==
    /\ <<s, r>> \in blocked_connections
    /\ Call(Op("unblock_connection", s, r, 0, TRUE))
    /\ phase' = "idle"
    /\ blocked_connections' = blocked_connections \ {<<s, r>>}
    /\ Commit(CallWorld)
    /\ UNCHANGED <<services, uid, listening_tcp, delayed_connections>>

\* Network::delay_connection
DelayConnection(s, r) ==
    /\ Cardinality(delayed_connections \cup {<<s, r>>}) <= MaxDelayed
    /\ Call(Op("delay_connection", s, r, 0, TRUE))
    /\ phase' = "idle"
    /\ delayed_connections' = delayed_connections \cup {<<s, r>>}
    /\ Commit(CallWorld)
    /\ UNCHANGED <<services, uid, listening_tcp, blocked_connections>>

\* A faulty variant of lost_connection: the second service is handled before the check.
lost_connection_eager(w, n1, n2) ==
    LET r1 == remove_connection_by_endpoint(w.conn[n1], n2)
        r2 == remove_connection_by_endpoint(w.conn[n2], n1)
        w0 == [w EXCEPT !.conn[n2] = r2.conn]
    IN IF r1.found = <<>> THEN w0
       ELSE IF ~find_service(n2) THEN [w EXCEPT !.conn[n1] = r1.conn, !.panic = TRUE]
       ELSE LET w1 == [w0 EXCEPT !.conn[n1] = r1.conn]
            IN send_event(send_event(w1, n1, EvLostPeer(uid[n2])), n2, EvLostPeer(uid[n1]))

\* Network::lost_connection.  The unwrap! of find_service(node_2) aborts the
\* run when node_2 was released, after node_1's entry was removed.
lost_connection(w, n1, n2) ==
    LET r1 == remove_connection_by_endpoint(w.conn[n1], n2)
    IN IF r1.found = <<>> THEN w
       ELSE IF ~find_service(n2) THEN [w EXCEPT !.conn[n1] = r1.conn, !.panic = TRUE]
       ELSE LET r2 == remove_connection_by_endpoint(w.conn[n2], n1)
                w1 == [w EXCEPT !.conn[n1] = r1.conn, !.conn[n2] = r2.conn]
            IN send_event(send_event(w1, n1, EvLostPeer(uid[n2])), n2, EvLostPeer(uid[n1]))

\* The unwrap! of find_service(node_1) fails on a released service: the
\* harness calls lost_connection with a live node_1.
LostConnection(n1, n2) ==
    /\ find_service(n1)
    /\ Call(Op("lost_connection", n1, n2, 0,
               remove_connection_by_endpoint(connections[n1], n2).found # <<>>))
    /\ phase' = IF lost_connection(CallWorld, n1, n2).panic THEN "panicked" ELSE "idle"
    /\ Commit(lost_connection(CallWorld, n1, n2))
    /\ UNCHANGED <<services, uid, listening_tcp, blocked_connections, delayed_connections>>

\* Network::reset_message_sent: the value returned and the state left.
reset_message_sent(w) == [ret |-> w.sent, w |-> [w EXCEPT !.sent = FALSE]]

ResetMessageSent ==
    /\ Call(Op("reset_message_sent", 0, 0, 0, reset_message_sent(CallWorld).ret))
    /\ phase' = "idle"
    /\ CommitState(reset_message_sent(CallWorld).w)
    /\ enqueued' = FALSE
    /\ UNCHANGED <<services, uid, listening_tcp, blocked_connections, delayed_connections>>

(***************************************************************************)
(* Network::poll.  PollStart is the call; each PollDeliver is one          *)
(* iteration of its loop (pop_packet returning a packet, process_packet);  *)
(* PollReturn is pop_packet returning None.                                *)
(***************************************************************************)
PollStart ==
    /\ phase \in {"idle", "returned"}
    /\ rounds < MaxRounds
    /\ phase' = "polling"
    /\ rounds' = rounds + 1
    /\ ops' = IF phase = "returned" THEN <<>> ELSE ops
    /\ delivered' = <<>>
    /\ UNCHANGED <<services, uid, listening_tcp, pending_bootstraps, connections, queue,
                   blocked_connections, delayed_connections, message_sent, events, nsent,
                   enqueued, listened, side>>

PollDeliver(k) ==
    /\ phase = "polling"
    /\ k \in EligibleKeys(queue, delayed_connections)
    /\ LET popped == pop_front(queue, k)
       IN /\ popped.result # <<>>
          /\ LET item == popped.result[1]
                 w == process_packet([World EXCEPT !.q = popped.q], k[1], k[2], item.pkt)
             IN /\ Commit(w)
                /\ delivered' = <<[s |-> k[1], r |-> k[2], pkt |-> item.pkt, sn |-> item.sn,
                                   recv |-> w.recv]>>
                /\ phase' = IF w.panic THEN "panicked" ELSE "polling"
    /\ UNCHANGED <<services, uid, listening_tcp, blocked_connections, delayed_connections,
                   rounds, ops, listened>>

PollReturn ==
    /\ phase = "polling"
    /\ \/ EligibleKeys(queue, delayed_connections) = {}
       \/ \E k \in EligibleKeys(queue, delayed_connections) : pop_front(queue, k).result = <<>>
    /\ phase' = "returned"
    /\ UNCHANGED <<services, uid, listening_tcp, pending_bootstraps, connections, queue,
                   blocked_connections, delayed_connections, message_sent, events, nsent,
                   rounds, ops, delivered, enqueued, listened, side>>

\* The state of every variable but the allocator's after Network::new and
\* the creation and start of the services in live.
Created(live) ==
    /\ services = live
    /\ uid = [e \in Endpoints |-> InitUid(e)]
    /\ listening_tcp = [e \in Endpoints |-> FALSE]
    /\ pending_bootstraps = [e \in Endpoints |-> 0]
    /\ connections = [e \in Endpoints |-> <<>>]
    /\ queue = EmptyQueue
    /\ blocked_connections = {}
    /\ delayed_connections = {}
    /\ message_sent = FALSE
    /\ phase = "idle"
    /\ rounds = 0
    /\ ops = <<>>
    /\ events = NoEvents
    /\ delivered = <<>>
    /\ nsent = 0
    /\ enqueued = FALSE
    /\ listened = {}
    /\ current = <<>>
    /\ frames = <<>>
    /\ got = <<>>
    /\ whitelist = [e \in Endpoints |-> {}]
    /\ asked = <<>>

\* One result of gen_endpoint: the endpoint and the argument it was asked with.
Handed(endpoint, opt) == [endpoint |-> endpoint, opt |-> opt]

Init ==
    /\ Created(Endpoints)
    /\ next_endpoint = NumServices
    /\ handed = [e \in 1 .. NumServices |-> Handed(e - 1, <<>>)]

\* The identities service e can name: those the other services go by and
\* those in its own connection list.
KnownUids(e) ==
    {uid[x] : x \in Endpoints \ {e}}
        \cup {connections[e][i][1] : i \in DOMAIN connections[e]}

\* send_message and disconnect are called with an identity the caller can
\* name; start_listening_tcp with the port the tests use; restart with a
\* fresh identity.
Next ==
    \/ \E e \in Endpoints, bl \in Blacklists : StartBootstrap(e, bl, BootstrapKind(e))
    \/ \E e \in Endpoints : StartListeningTcp(e, 5483)
    \/ \E k \in Pairs : Connect(k[1], k[2])
    \/ \E e \in Endpoints : \E u \in KnownUids(e), d \in Payloads : SendMessage(e, u, d)
    \/ \E e \in Endpoints : \E u \in KnownUids(e) : DisconnectPeer(e, u)
    \/ \E e \in Endpoints : DisconnectAll(e)
    \/ \E e \in Endpoints : Restart(e, RestartUid(e))
    \/ \E e \in Endpoints : DropService(e)
    \/ \E k \in Pairs : BlockConnection(k[1], k[2])
    \/ \E k \in Pairs : UnblockConnection(k[1], k[2])
    \/ \E k \in Pairs : DelayConnection(k[1], k[2])
    \/ \E k \in Pairs : LostConnection(k[1], k[2])
    \/ ResetMessageSent
    \/ PollStart
    \/ \E k \in Pairs : PollDeliver(k)
    \/ PollReturn

Spec == Init /\ [][Next]_vars

(***************************************************************************)
(* The network after a restart whose disconnect notice was lost.  Service  *)
(* 0, going by StaleUid(0), and service 1 connected to each other          *)
(* (connect, poll); service 0 restarted, taking InitUid(0): disconnect_all *)
(* emptied its list and enqueued a Disconnect for service 1; service 2     *)
(* called disconnect_all, whose drop_all_pending removed that Disconnect   *)
(* with the rest of the queue.  Service 1 still holds the entry            *)
(* (StaleUid(0), 0).  The histories start afresh from this state.          *)
(***************************************************************************)
InitStale ==
    /\ services = Endpoints
    /\ uid = [e \in Endpoints |-> InitUid(e)]
    /\ listening_tcp = [e \in Endpoints |-> FALSE]
    /\ pending_bootstraps = [e \in Endpoints |-> 0]
    /\ connections = [e \in Endpoints |-> IF e = 1 THEN << <<StaleUid(0), 0>> >> ELSE <<>>]
    /\ queue = EmptyQueue
    /\ blocked_connections = {}
    /\ delayed_connections = {}
    /\ message_sent = TRUE
    /\ phase = "idle"
    /\ rounds = 0
    /\ ops = <<>>
    /\ events = NoEvents
    /\ delivered = <<>>
    /\ nsent = 0
    /\ enqueued = TRUE
    /\ listened = {}
    /\ current = <<>>
    /\ frames = <<>>
    /\ got = <<>>
    /\ whitelist = [e \in Endpoints |-> {}]
    /\ asked = <<>>
    /\ next_endpoint = NumServices
    /\ handed = [e \in 1 .. NumServices |-> Handed(e - 1, <<>>)]

SpecStale == InitStale /\ [][Next]_vars

(***************************************************************************)
(* The allocator of endpoints on its own: Network::new, then calls of      *)
(* gen_endpoint with and without an explicit endpoint.  endpoint.0 + 1 is  *)
(* usize arithmetic: past usize::MAX it panics in a build with overflow    *)
(* checks and wraps to zero in one without.                                *)
(***************************************************************************)
OptEndpoints == {<<>>} \cup {<<v>> : v \in 0 .. UsizeMax}

Max(a, b) == IF a >= b THEN a ELSE b

\* Network::gen_endpoint: the endpoint returned, the counter left by the
\* wrapping addition, and whether the addition overflows.
gen_endpoint(next, opt) ==
    LET endpoint == IF opt # <<>> THEN opt[1] ELSE next
    IN [endpoint |-> endpoint,
        next |-> Max(next, (endpoint + 1) % (UsizeMax + 1)),
        overflow |-> endpoint + 1 > UsizeMax]

GenEndpoint(opt) ==
    /\ phase = "idle"
    /\ Len(handed) < MaxHanded
    /\ LET r == gen_endpoint(next_endpoint, opt)
       IN \/ /\ next_endpoint' = r.next
             /\ handed' = Append(handed, Handed(r.endpoint, opt))
             /\ phase' = "idle"
          \/ /\ r.overflow
             /\ phase' = "panicked"
             /\ UNCHANGED <<next_endpoint, handed>>
    /\ UNCHANGED <<services, uid, listening_tcp, pending_bootstraps, connections, queue,
                   blocked_connections, delayed_connections, message_sent,
                   rounds, ops, events, delivered, nsent, enqueued,
                   listened, current, frames, got, whitelist, asked>>

InitEndpoints ==
    /\ Created({})
    /\ next_endpoint = 0
    /\ handed = <<>>

NextEndpoints == \E opt \in OptEndpoints : GenEndpoint(opt)

SpecEndpoints == InitEndpoints /\ [][NextEndpoints]_vars

(***************************************************************************)
(* Properties.                                                             *)
(***************************************************************************)
Last(seq) == seq[Len(seq)]
Count(seq, x) == Cardinality({i \in DOMAIN seq : seq[i] = x})
RequestKinds == {"BootstrapRequest", "ConnectRequest"}

\* The packets pending, each as <<pair, position>>, and the requests among them.
Items(q) == UNION {{<<k, i>> : i \in DOMAIN q[k]} : k \in DOMAIN q}
RequestItems(q) == {x \in Items(q) : q[x[1]][x[2]].pkt.kind \in RequestKinds}

\* A bound on the iterations poll has left: a request may cause one reply.
Measure == Cardinality(Items(queue)) + Cardinality(RequestItems(queue))

\* A step that is a call of the harness (not a step of poll).
CallStep == phase' = "idle" /\ (phase = "returned" \/ Len(ops') > Len(ops))

\* A step of poll that popped a packet.
PopStep == phase = "polling" /\ delivered' # <<>> /\ delivered' # delivered

\* C1: when Network::poll returns, no packet is pending on any directed pair.
C1_DrainFixedPoint == phase = "returned" => Pending(queue) = {}

\* C2: packets of one directed pair are handed over in the order they were
\* enqueued: every packet left on the pair of the packet popped last was
\* enqueued after it, whatever was popped from other pairs in between.
C2_FifoPerPair ==
    delivered # <<>> =>
        LET d == delivered[1]
            k == <<d.s, d.r>>
        IN k \in DOMAIN queue => \A i \in DOMAIN queue[k] : queue[k][i].sn > d.sn

\* C2 witness: a packet was handed over while a later one waits on the same
\* pair and the reverse pair holds packets too.
C2_Witness ==
    /\ delivered # <<>>
    /\ delivered[1].recv # <<>>
    /\ <<delivered[1].s, delivered[1].r>> \in Pending(queue)
    /\ <<delivered[1].r, delivered[1].s>> \in Pending(queue)

\* C3: poll terminates: every iteration of its loop pops one packet and
\* enqueues at most one, a reply or failure enqueues none, so the measure
\* (pending packets, requests counted twice) strictly decreases.
C3_PollTerminates ==
    [][PopStep =>
         /\ Measure' < Measure
         /\ Cardinality(Items(queue')) <= Cardinality(Items(queue))
         /\ delivered'[1].pkt.kind \notin RequestKinds
               => Cardinality(Items(queue')) = Cardinality(Items(queue)) - 1]_vars

\* C3 witness: poll delivered a request from a delayed pair, every pair with
\* pending packets being delayed, and the reply it caused is pending.
C3_Witness ==
    /\ phase = "polling"
    /\ delivered # <<>>
    /\ delivered[1].pkt.kind \in RequestKinds
    /\ <<delivered[1].s, delivered[1].r>> \in delayed_connections
    /\ Pending(queue) = {<<delivered[1].r, delivered[1].s>>}

\* C4: no packet is popped from a delayed pair while a pair that is not
\* delayed holds a pending packet.
C4_DelayedStarved ==
    [][(PopStep /\ <<delivered'[1].s, delivered'[1].r>> \in delayed_connections)
          => Pending(queue) \subseteq delayed_connections]_vars

\* C4 witness: a packet was popped from a pair that is not delayed while a
\* delayed pair holds a pending packet.
C4_Witness ==
    /\ phase = "polling"
    /\ delivered # <<>>
    /\ <<delivered[1].s, delivered[1].r>> \notin delayed_connections
    /\ Pending(queue) \cap delayed_connections # {}

\* C5: when every pair that holds a pending packet is delayed, poll delivers
\* those packets before it returns.
C5_ProgressUnderFullDelay ==
    (phase = "returned" /\ Pending(queue) \subseteq delayed_connections)
        => Pending(queue) = {}

\* C6: two services without a connection that each call connect towards the
\* other before the poll hold one entry for each other after it, and neither
\* got the ConnectSuccess event for the other twice.
C6_SimultaneousConnect ==
    \A k \in Pairs :
        LET a == k[1]
            b == k[2]
        IN (/\ phase = "returned"
            /\ Len(ops) = 2
            /\ ops[1].op = "connect" /\ ops[1].a = a /\ ops[1].b = b
            /\ ops[2].op = "connect" /\ ops[2].a = b /\ ops[2].b = a
            /\ ~ops[1].out /\ ~ops[1].inn /\ ~ops[2].out /\ ~ops[2].inn)
           => /\ Count(connections[a], <<uid[b], b>>) = 1
              /\ Count(connections[b], <<uid[a], a>>) = 1
              /\ Cardinality({i \in DOMAIN connections[a] : connections[a][i][2] = b}) = 1
              /\ Cardinality({i \in DOMAIN connections[b] : connections[b][i][2] = a}) = 1
              /\ Count(events[a], EvConnectSuccess(uid[b])) <= 1
              /\ Count(events[b], EvConnectSuccess(uid[a])) <= 1

\* C7: after A, connected to B and B to A, calls disconnect(uid of B): B gets
\* no LostPeer before the poll; once the poll has returned B got exactly one
\* LostPeer naming A and holds no entry for A; A gets no LostPeer naming B.
C7_DisconnectAsymmetry ==
    (/\ ops # <<>>
     /\ Last(ops).op = "disconnect"
     /\ Last(ops).ret /\ Last(ops).out /\ Last(ops).inn)
    => LET a == Last(ops).a
           b == Last(ops).b
       IN /\ phase = "idle" => \A i \in DOMAIN events[b] : events[b][i].ev # "LostPeer"
          /\ phase = "returned" =>
                /\ Count(events[b], EvLostPeer(uid[a])) = 1
                /\ ~HasEntry(b, a)
          /\ phase \in {"idle", "polling", "returned"} =>
                Count(events[a], EvLostPeer(uid[b])) = 0

\* C8: right after disconnect(uid) returned true, the caller A holds no entry
\* for uid, the only packet pending between A and the peer B in either
\* direction is the new Disconnect on (A, B), and no other pair's queue changed.
C8_DisconnectImmediate ==
    [][(CallStep /\ Last(ops').op = "disconnect" /\ Last(ops').ret) =>
         LET a == Last(ops').a
             b == Last(ops').b
             u == Last(ops').u
         IN /\ \A i \in DOMAIN connections'[a] : connections'[a][i][1] # u
            /\ <<a, b>> \in DOMAIN queue'
            /\ Len(queue'[<<a, b>>]) = 1
            /\ queue'[<<a, b>>][1].pkt = Disconnect
            /\ \A x \in Items(queue) : queue'[<<a, b>>][1].sn > queue[x[1]][x[2]].sn
            /\ <<b, a>> \notin Pending(queue')
            /\ \A k \in (DOMAIN queue \cup DOMAIN queue') \ {<<a, b>>, <<b, a>>} :
                  /\ k \in DOMAIN queue /\ k \in DOMAIN queue'
                  /\ queue'[k] = queue[k]]_vars

\* C8 witness: disconnect returned true, it dropped packets the peer had
\* sent, and a pair it left alone holds packets.
C8_Witness ==
    /\ phase = "idle"
    /\ ops # <<>>
    /\ Last(ops).op = "disconnect"
    /\ Last(ops).ret
    /\ <<Last(ops).b, Last(ops).a>> \in DOMAIN queue
    /\ Pending(queue) \ {<<Last(ops).a, Last(ops).b>>} # {}

\* C9: lost_connection(a, b) when a holds no entry for b changes no
\* connection list and no queue and delivers no event.
C9_LostConnectionNoop ==
    [][(CallStep /\ Last(ops').op = "lost_connection"
          /\ find_uid_by_endpoint(connections[Last(ops').a], Last(ops').b) = <<>>)
         => /\ connections' = connections
            /\ queue' = queue
            /\ events' = NoEvents
            /\ message_sent' = message_sent]_vars

\* C9 witness: lost_connection(a, b) was called when a held no entry for b
\* while b holds one for a.
C9_Witness ==
    /\ phase = "idle"
    /\ ops # <<>>
    /\ Last(ops).op = "lost_connection"
    /\ ~Last(ops).ret
    /\ ~HasEntry(Last(ops).a, Last(ops).b)
    /\ HasEntry(Last(ops).b, Last(ops).a)

QSeq(q, k) == IF k \in DOMAIN q THEN q[k] ELSE <<>>

\* The contacts start_bootstrap on e with blacklist bl sends a request to.
Targets(e, bl) ==
    {hard_coded_contacts(e)[i] : i \in DOMAIN hard_coded_contacts(e)}
        \ ({e} \cup {c \in Endpoints : to_socket_addr(c) \in bl})

\* The failure counterpart of a request.
FailureOf(p) ==
    IF p.kind = "BootstrapRequest" THEN BootstrapFailure ELSE ConnectFailure(p.b, p.a)

\* C11: start_bootstrap on a service all of whose contacts are its own
\* endpoint or blacklisted delivers exactly one BootstrapFailed (and nothing
\* else to anyone), enqueues no packet, leaves message_sent as it was and
\* leaves pending_bootstraps at zero.
C11_BootstrapNoContacts ==
    [][(CallStep /\ Last(ops').op = "start_bootstrap"
          /\ Targets(Last(ops').a, Last(ops').bl) = {})
         => LET e == Last(ops').a
            IN /\ events' = [NoEvents EXCEPT ![e] = <<EvBootstrapFailed>>]
               /\ queue' = queue
               /\ message_sent' = message_sent
               /\ pending_bootstraps'[e] = 0]_vars

\* C11 witness: a service with a contact besides itself, blacklisted, started
\* a bootstrap while packets were pending and got the failure at once.
C11_Witness ==
    /\ phase = "idle"
    /\ ops # <<>>
    /\ Last(ops).op = "start_bootstrap"
    /\ Last(ops).bl # {}
    /\ Len(hard_coded_contacts(Last(ops).a)) > 1
    /\ Targets(Last(ops).a, Last(ops).bl) = {}
    /\ events[Last(ops).a] = <<EvBootstrapFailed>>
    /\ Pending(queue) # {}

\* C12: a service without connections starts a bootstrap on a network with
\* an empty queue, every contact it sends a request to is not listening, and
\* poll runs: when poll has returned the service got BootstrapFailed exactly
\* once, holds no connection and has no outstanding bootstrap.
C12_BootstrapNotListening ==
    (/\ phase = "returned"
     /\ ops # <<>>
     /\ Last(ops).op = "start_bootstrap"
     /\ Last(ops).clean
     /\ Last(ops).nconn = 0
     /\ Targets(Last(ops).a, Last(ops).bl) # {}
     /\ \A c \in Targets(Last(ops).a, Last(ops).bl) : ~listening_tcp[c])
    => LET e == Last(ops).a
       IN /\ Count(events[e], EvBootstrapFailed) = 1
          /\ connections[e] = <<>>
          /\ pending_bootstraps[e] = 0

\* C12 witness: the bootstrap went to two contacts, neither listening.
C12_Witness ==
    /\ phase = "returned"
    /\ ops # <<>>
    /\ Last(ops).op = "start_bootstrap"
    /\ Last(ops).clean
    /\ Cardinality(Targets(Last(ops).a, Last(ops).bl)) = 2
    /\ \A c \in Targets(Last(ops).a, Last(ops).bl) : ~listening_tcp[c]
    /\ Count(events[Last(ops).a], EvBootstrapFailed) = 1

\* C13: a service without connections starts a bootstrap with one contact
\* to send to, which is live, listening and not cut off by a block, on a
\* network with an empty queue, and poll runs: when poll has returned the
\* service holds exactly one connection, to the contact, got one
\* BootstrapConnect and no BootstrapFailed; the contact got exactly one
\* BootstrapAccept and holds one connection to the service.
C13_BootstrapListening ==
    \A c \in Endpoints :
        (/\ phase = "returned"
         /\ ops # <<>>
         /\ Last(ops).op = "start_bootstrap"
         /\ Last(ops).clean
         /\ Last(ops).nconn = 0
         /\ Targets(Last(ops).a, Last(ops).bl) = {c}
         /\ c \in services
         /\ listening_tcp[c]
         /\ <<Last(ops).a, c>> \notin blocked_connections)
        => LET e == Last(ops).a
           IN /\ connections[e] = << <<uid[c], c>> >>
              /\ Count(events[e], EvBootstrapConnect(uid[c], to_socket_addr(c))) = 1
              /\ Cardinality({i \in DOMAIN events[e] : events[e][i].ev = "BootstrapConnect"}) = 1
              /\ Count(events[e], EvBootstrapFailed) = 0
              /\ Count(events[c], EvBootstrapAccept(uid[e], BootstrapKind(e))) = 1
              /\ Cardinality({i \in DOMAIN events[c] : events[c][i].ev = "BootstrapAccept"}) = 1
              /\ Count(connections[c], <<uid[e], e>>) = 1

\* C13 witness: the bootstrap reached its one listening contact.
C13_Witness ==
    /\ phase = "returned"
    /\ ops # <<>>
    /\ Last(ops).op = "start_bootstrap"
    /\ Last(ops).clean
    /\ Last(ops).nconn = 0
    /\ \E c \in services :
          /\ Targets(Last(ops).a, Last(ops).bl) = {c}
          /\ listening_tcp[c]
          /\ connections[Last(ops).a] = << <<uid[c], c>> >>

\* C14: when the receiver of a popped packet has no live service, a request
\* has its failure counterpart appended to the reverse pair and any other
\* packet is dropped: nothing is enqueued, no event is delivered, no list
\* changes.
C14_VanishedDestination ==
    [][(PopStep /\ delivered'[1].r \notin services) =>
         LET d == delivered'[1]
             k == <<d.s, d.r>>
             rev == <<d.r, d.s>>
             request == d.pkt.kind \in RequestKinds
         IN /\ d.recv = <<>>
            /\ events' = events
            /\ connections' = connections
            /\ pending_bootstraps' = pending_bootstraps
            /\ QSeq(queue', k) = Tail(queue[k])
            /\ \A x \in (DOMAIN queue \cup DOMAIN queue') \ {k, rev} :
                  QSeq(queue', x) = QSeq(queue, x)
            /\ IF request
               THEN /\ QSeq(queue', rev) =
                          Append(QSeq(queue, rev), [pkt |-> FailureOf(d.pkt), sn |-> nsent])
                    /\ message_sent'
               ELSE /\ QSeq(queue', rev) = QSeq(queue, rev)
                    /\ message_sent' = message_sent]_vars

\* C14 witness: a message to a released service was popped.
C14_Witness ==
    /\ delivered # <<>>
    /\ delivered[1].r \notin services
    /\ delivered[1].pkt.kind = "Message"

\* C15: every key of the queue map holds at least one packet.
C15_QueueMapInvariant == \A k \in DOMAIN queue : queue[k] # <<>>

\* C16: no connection list holds the same (uid, endpoint) pair twice;
\* registering a pair that is there leaves the list as it was.
C16_ConnectionUniqueness ==
    \A e \in Endpoints :
        \A i, j \in DOMAIN connections[e] :
            connections[e][i] = connections[e][j] => i = j

\* C16 witness: a ConnectSuccess was handed to a service that held the pair
\* it registers: the event came a second time, the list holds the pair once.
C16_Witness ==
    /\ delivered # <<>>
    /\ delivered[1].pkt.kind = "ConnectSuccess"
    /\ delivered[1].recv # <<>>
    /\ Count(events[delivered[1].r], EvConnectSuccess(delivered[1].pkt.a)) = 2
    /\ Count(connections[delivered[1].r], <<delivered[1].pkt.a, delivered[1].s>>) = 1

\* C18: send_message(uid, payload) on a service without an entry for uid
\* returns false and changes nothing; otherwise it returns true and appends
\* one Message with that payload to the pair from the service to the
\* endpoint recorded for uid, and no other pair changes.
C18_SendMessage ==
    [][(CallStep /\ Last(ops').op = "send_message") =>
         LET a == Last(ops').a
             u == Last(ops').u
             has == \E i \in DOMAIN connections[a] : connections[a][i][1] = u
         IN /\ connections' = connections
            /\ events' = NoEvents
            /\ IF ~has
               THEN /\ ~Last(ops').ret
                    /\ queue' = queue
                    /\ message_sent' = message_sent
               ELSE LET i == CHOOSE i \in DOMAIN connections[a] :
                                 /\ connections[a][i][1] = u
                                 /\ \A j \in 1 .. (i - 1) : connections[a][j][1] # u
                        k == <<a, connections[a][i][2]>>
                    IN /\ Last(ops').ret
                       /\ message_sent'
                       /\ QSeq(queue', k) =
                             Append(QSeq(queue, k),
                                    [pkt |-> Message(Last(ops').data), sn |-> nsent' - 1])
                       /\ \A x \in (DOMAIN queue \cup DOMAIN queue') \ {k} :
                             QSeq(queue', x) = QSeq(queue, x)]_vars

\* C18 witness: send_message returned true and its packet waits behind an
\* earlier one on the same pair.
C18_Witness ==
    /\ phase = "idle"
    /\ ops # <<>>
    /\ Last(ops).op = "send_message"
    /\ Last(ops).ret
    /\ Len(QSeq(queue, <<Last(ops).a, Last(ops).b>>)) >= 2

\* C19: reset_message_sent returns true exactly when a packet joined the
\* queue since the previous reset_message_sent (or since creation), and it
\* leaves the flag false.
C19_ResetMessageSent ==
    [][(CallStep /\ Last(ops').op = "reset_message_sent")
         => /\ Last(ops').ret = enqueued
            /\ message_sent' = FALSE]_vars

\* C19 witness: after a poll, two calls in a row: the first returned true,
\* the second false.
C19_Witness ==
    /\ phase = "idle"
    /\ rounds > 0
    /\ Len(ops) = 2
    /\ ops[1].op = "reset_message_sent" /\ ops[1].ret
    /\ ops[2].op = "reset_message_sent" /\ ~ops[2].ret

\* C20: next_endpoint never decreases and exceeds every endpoint handed out
\* so far; an endpoint assigned without an explicit value differs from every
\* endpoint handed out before it; an explicit value is returned unchanged.
C20_EndpointAllocation ==
    [][/\ next_endpoint' >= next_endpoint
       /\ \A i \in DOMAIN handed' :
             /\ handed'[i].endpoint < next_endpoint'
             /\ handed'[i].opt # <<>> => handed'[i].endpoint = handed'[i].opt[1]
             /\ handed'[i].opt = <<>> =>
                   \A j \in 1 .. (i - 1) : handed'[j].endpoint # handed'[i].endpoint]_vars

\* C17: lost_connection(a, b) when a holds an entry for endpoint b (and b is
\* live): afterwards neither holds an entry for the other's endpoint, each
\* of the two got exactly one LostPeer, naming the other, nobody else got an
\* event, and the queue is as before.
C17_LostConnection ==
    [][(CallStep /\ Last(ops').op = "lost_connection"
          /\ find_uid_by_endpoint(connections[Last(ops').a], Last(ops').b) # <<>>
          /\ Last(ops').b \in services)
         => LET a == Last(ops').a
                b == Last(ops').b
            IN /\ \A i \in DOMAIN connections'[a] : connections'[a][i][2] # b
               /\ \A i \in DOMAIN connections'[b] : connections'[b][i][2] # a
               /\ events' = [NoEvents EXCEPT ![a] = <<EvLostPeer(uid[b])>>,
                                             ![b] = <<EvLostPeer(uid[a])>>]
               /\ queue' = queue]_vars

(***************************************************************************)
(* The thread-local CURRENT on its own: make_current(handle, f) is the     *)
(* steps MakeCurrent (the slot is set, f starts) and ReturnCurrent (f has  *)
(* returned, the slot is reset); f may call get_current and make_current.  *)
(* A handle is named by the endpoint of its service.  A frame records the  *)
(* handle of a running make_current, how often its closure has called      *)
(* get_current and whether it has called make_current.                     *)
(***************************************************************************)
Frame(h) == [handle |-> h, gets |-> 0, nested |-> FALSE]

\* The last call on the slot: its name, the handle given or returned, and
\* whether it panicked.
Got(name, h, panic) == [op |-> name, handle |-> h, panic |-> panic]

\* get_current that reads the slot without taking its content.
get_current_peek(slot) == [result |-> slot, slot |-> slot, panic |-> slot = <<>>]

\* get_current: take() empties the slot; unwrap! panics on None.
get_current(slot) == [result |-> slot, slot |-> <<>>, panic |-> slot = <<>>]

\* The assignments of make_current before and after f().
make_current_set(h) == <<h>>
make_current_reset == <<>>

SlotUnchanged ==
    UNCHANGED <<services, uid, listening_tcp, pending_bootstraps, connections, queue,
                blocked_connections, delayed_connections, message_sent, rounds, ops,
                events, delivered, nsent, next_endpoint, handed, enqueued, listened,
                whitelist, asked>>

MakeCurrent(h) ==
    /\ phase = "idle"
    /\ Len(frames) < MaxDepth
    /\ current' = make_current_set(h)
    /\ frames' = Append([i \in DOMAIN frames |->
                            IF i = Len(frames) THEN [frames[i] EXCEPT !.nested = TRUE]
                            ELSE frames[i]],
                        Frame(h))
    /\ got' = Got("make_current", <<h>>, FALSE)
    /\ phase' = "idle"
    /\ SlotUnchanged

GetCurrent ==
    /\ phase = "idle"
    /\ LET r == get_current(current)
       IN /\ current' = r.slot
          /\ got' = Got("get_current", r.result, r.panic)
          /\ phase' = IF r.panic THEN "panicked" ELSE "idle"
    /\ frames' = [i \in DOMAIN frames |->
                    IF i = Len(frames) THEN [frames[i] EXCEPT !.gets = @ + 1]
                    ELSE frames[i]]
    /\ SlotUnchanged

ReturnCurrent ==
    /\ phase = "idle"
    /\ frames # <<>>
    /\ current' = make_current_reset
    /\ frames' = SubSeq(frames, 1, Len(frames) - 1)
    /\ got' = Got("return", <<frames[Len(frames)].handle>>, FALSE)
    /\ phase' = "idle"
    /\ SlotUnchanged

InitCurrent ==
    /\ Created(Endpoints)
    /\ next_endpoint = NumServices
    /\ handed = [e \in 1 .. NumServices |-> Handed(e - 1, <<>>)]

NextCurrent ==
    \/ \E h \in Endpoints : MakeCurrent(h)
    \/ GetCurrent
    \/ ReturnCurrent

SpecCurrent == InitCurrent /\ [][NextCurrent]_vars

(***************************************************************************)
(* The whitelist on its own: whitelist_peer and is_peer_whitelisted on     *)
(* service 0, whose connection list starts as any list of at most          *)
(* MaxEntries distinct entries, each an identity another service has gone  *)
(* by with the endpoint of that service.                                   *)
(***************************************************************************)
PeerEntries == UNION {{<<InitUid(x), x>>, <<StaleUid(x), x>>} : x \in Endpoints \ {0}}

ConnectionLists ==
    {conn \in UNION {[1 .. n -> PeerEntries] : n \in 0 .. MaxEntries} :
        \A i, j \in DOMAIN conn : conn[i] = conn[j] => i = j}

\* is_peer_whitelisted with map_or(true, ..).
is_peer_whitelisted_open(wl, conn, id) ==
    \/ wl = {}
    \/ LET endpoint == find_endpoint_by_uid(conn, id)
       IN endpoint = <<>> \/ endpoint[1] \in wl

\* ServiceImpl::is_peer_whitelisted
is_peer_whitelisted(wl, conn, id) ==
    \/ wl = {}
    \/ LET endpoint == find_endpoint_by_uid(conn, id)
       IN endpoint # <<>> /\ endpoint[1] \in wl

\* ServiceImpl::whitelist_peer: HashSet::insert, false for a member.
whitelist_peer(wl, endpoint) == [set |-> wl \cup {endpoint}, inserted |-> endpoint \notin wl]

\* The last call on a whitelist: its name, the endpoint or identity given
\* and what it (or the insert) returned.
Asked(name, arg, ret) == [op |-> name, arg |-> arg, ret |-> ret]

WhitelistUnchanged ==
    UNCHANGED <<services, uid, listening_tcp, pending_bootstraps, connections, queue,
                blocked_connections, delayed_connections, message_sent, phase, rounds, ops,
                events, delivered, nsent, next_endpoint, handed, enqueued, listened,
                current, frames, got>>

WhitelistPeer(e, endpoint) ==
    /\ find_service(e)
    /\ whitelist' = [whitelist EXCEPT ![e] = whitelist_peer(@, endpoint).set]
    /\ asked' = Asked("whitelist_peer", endpoint, whitelist_peer(whitelist[e], endpoint).inserted)
    /\ WhitelistUnchanged

IsPeerWhitelisted(e, id) ==
    /\ find_service(e)
    /\ asked' = Asked("is_peer_whitelisted", id,
                      is_peer_whitelisted(whitelist[e], connections[e], id))
    /\ UNCHANGED whitelist
    /\ WhitelistUnchanged

InitWhitelist ==
    /\ services = Endpoints
    /\ uid = [e \in Endpoints |-> InitUid(e)]
    /\ listening_tcp = [e \in Endpoints |-> FALSE]
    /\ pending_bootstraps = [e \in Endpoints |-> 0]
    /\ \E conn \in ConnectionLists :
          connections = [e \in Endpoints |-> IF e = 0 THEN conn ELSE <<>>]
    /\ queue = EmptyQueue
    /\ blocked_connections = {}
    /\ delayed_connections = {}
    /\ message_sent = TRUE
    /\ phase = "idle"
    /\ rounds = 0
    /\ ops = <<>>
    /\ events = NoEvents
    /\ delivered = <<>>
    /\ nsent = 0
    /\ enqueued = TRUE
    /\ listened = {}
    /\ current = <<>>
    /\ frames = <<>>
    /\ got = <<>>
    /\ whitelist = [e \in Endpoints |-> {}]
    /\ asked = <<>>
    /\ next_endpoint = NumServices
    /\ handed = [e \in 1 .. NumServices |-> Handed(e - 1, <<>>)]

NextWhitelist ==
    \/ \E endpoint \in Endpoints : WhitelistPeer(0, endpoint)
    \/ \E id \in Uids : IsPeerWhitelisted(0, id)

SpecWhitelist == InitWhitelist /\ [][NextWhitelist]_vars

(***************************************************************************)
(* Teardown, restart, the whitelist and the handlers of poll.              *)
(***************************************************************************)
\* The calls that run disconnect_all.
TeardownOps == {"disconnect_all", "restart", "drop"}

\* C21: right after disconnect_all (called directly, by restart or by Drop)
\* the service's list is empty and the queue of the whole network holds
\* exactly one Disconnect per former entry of the service, each on the pair
\* from the service to the entry's endpoint: nothing else is pending, on
\* any pair, and no key holds an empty deque.
C21_DisconnectAll ==
    [][(CallStep /\ Last(ops').op \in TeardownOps) =>
         LET e == Last(ops').a
             former == connections[e]
         IN /\ connections'[e] = <<>>
            /\ DOMAIN queue' = Pending(queue')
            /\ \A k \in Endpoints \X Endpoints :
                  /\ \A i \in DOMAIN QSeq(queue', k) : QSeq(queue', k)[i].pkt = Disconnect
                  /\ Len(QSeq(queue', k)) =
                        IF k[1] = e
                        THEN Cardinality({i \in DOMAIN former : former[i][2] = k[2]})
                        ELSE 0]_vars

\* C21 witness: a service holding a connection called disconnect_all while
\* a request between two other services was pending: the one packet left
\* is its Disconnect.
C21_Witness ==
    /\ phase = "idle"
    /\ Len(ops) = 2
    /\ ops[1].op = "connect"
    /\ ops[1].a # ops[2].a
    /\ ops[1].b # ops[2].a
    /\ ops[2].op = "disconnect_all"
    /\ ops[2].nconn = 1
    /\ Cardinality(Items(queue)) = 1
    /\ connections[ops[2].a] = <<>>

\* C22: restart delivers no event to the service, leaves it with an empty
\* list, not listening, live at the same endpoint and with the identity
\* given; and a bootstrap request handed to a restarted service that has not
\* called start_listening_tcp since is answered with BootstrapFailure and
\* registers no connection and delivers no event.
C22_RestartCleanReset ==
    [][/\ (CallStep /\ Last(ops').op = "restart") =>
            LET e == Last(ops').a
            IN /\ events'[e] = <<>>
               /\ connections'[e] = <<>>
               /\ ~listening_tcp'[e]
               /\ e \in services'
               /\ uid'[e] = Last(ops').u
               /\ uid'[e] # uid[e]
       /\ (/\ PopStep
           /\ delivered'[1].pkt.kind = "BootstrapRequest"
           /\ delivered'[1].recv # <<>>
           /\ uid[delivered'[1].r] = RestartUid(delivered'[1].r)
           /\ delivered'[1].r \notin listened) =>
            LET d == delivered'[1]
                rev == <<d.r, d.s>>
            IN /\ connections' = connections
               /\ events' = events
               /\ QSeq(queue', rev) =
                     Append(QSeq(queue, rev), [pkt |-> BootstrapFailure, sn |-> nsent])]_vars

\* C22 witness: a restarted service that has not listened since was handed
\* a bootstrap request; the failure is the last packet on the reverse pair.
C22_Witness ==
    /\ phase = "polling"
    /\ delivered # <<>>
    /\ delivered[1].pkt.kind = "BootstrapRequest"
    /\ delivered[1].recv # <<>>
    /\ uid[delivered[1].r] = RestartUid(delivered[1].r)
    /\ delivered[1].r \notin listened
    /\ connections[delivered[1].r] = <<>>
    /\ <<delivered[1].r, delivered[1].s>> \in Pending(queue)
    /\ Last(queue[<<delivered[1].r, delivered[1].s>>]).pkt = BootstrapFailure

\* C23: a get_current that is the first call on the slot in the closure of
\* a make_current returns that make_current's handle and empties the slot;
\* every other get_current panics: a second one in the same closure, one
\* outside any make_current, and one in a closure after a make_current
\* nested in it has returned.  When make_current returns the slot is
\* empty, whether or not the closure retrieved the handle, and it is empty
\* whenever no make_current is running.
C23_CurrentSlot ==
    [][/\ (got'.op = "get_current" /\ (phase' = "panicked" \/ frames' # frames)) =>
            IF frames # <<>> /\ Last(frames).gets = 0 /\ ~Last(frames).nested
            THEN /\ got'.handle = <<Last(frames).handle>>
                 /\ ~got'.panic
                 /\ phase' = "idle"
                 /\ current' = <<>>
            ELSE /\ got'.handle = <<>>
                 /\ got'.panic
                 /\ phase' = "panicked"
       /\ Len(frames') < Len(frames) => current' = <<>>
       /\ frames' = <<>> => current' = <<>>]_vars

\* C23 witness: inside one make_current the first get_current returned the
\* handle and the second panicked.
C23_Witness ==
    /\ phase = "panicked"
    /\ Len(frames) = 1
    /\ frames[1].gets = 2
    /\ ~frames[1].nested
    /\ got = Got("get_current", <<>>, TRUE)
    /\ current = <<>>

\* C25: is_peer_whitelisted(id) is true exactly when the whitelist is empty
\* or the list holds an entry for id whose endpoint is in the whitelist (so
\* with a non-empty whitelist an identity without an entry is never
\* whitelisted); whitelist_peer of an endpoint already in the whitelist
\* changes nothing.
C25_Whitelist ==
    [][/\ asked'.op = "is_peer_whitelisted" =>
            /\ asked'.ret =
                 (\/ whitelist[0] = {}
                  \/ \E i \in DOMAIN connections[0] :
                        /\ connections[0][i][1] = asked'.arg
                        /\ connections[0][i][2] \in whitelist[0])
            /\ (whitelist[0] # {} /\ ~is_peer_connected(connections[0], asked'.arg))
                  => ~asked'.ret
       /\ (asked'.op = "whitelist_peer" /\ asked'.arg \in whitelist[0]) =>
            /\ whitelist' = whitelist
            /\ connections' = connections
            /\ ~asked'.ret]_vars

\* C25 witness: with a non-empty whitelist that leaves out the endpoint of
\* one of two entries, the identity of the other entry was found
\* whitelisted.
C25_Witness ==
    /\ asked # <<>>
    /\ asked.op = "is_peer_whitelisted"
    /\ asked.ret
    /\ whitelist[0] # {}
    /\ Len(connections[0]) = MaxEntries
    /\ \E i \in DOMAIN connections[0] : connections[0][i][2] \notin whitelist[0]

\* C26: a Message handed to a service comes from an endpoint the service
\* holds an entry for, and yields exactly one NewMessage with that entry's
\* identity and the payload; the unreachable!() of handle_message is never
\* executed.
C26_MessageFromConnectedPeer ==
    [][(PopStep /\ delivered'[1].pkt.kind = "Message" /\ delivered'[1].recv # <<>>) =>
         LET d == delivered'[1]
             from == find_uid_by_endpoint(connections[d.r], d.s)
         IN /\ from # <<>>
            /\ phase' # "panicked"
            /\ events' = [events EXCEPT
                            ![d.r] = Append(@, EvNewMessage(from[1], d.pkt.data))]]_vars

\* The number of events of one kind in a sequence of events.
CountKind(seq, kind) == Cardinality({i \in DOMAIN seq : seq[i].ev = kind})

\* A bootstrap was the last call, made without connections on an empty
\* queue, and one of the contacts it went to is live, listening and
\* reachable.
BootstrapAccepted ==
    /\ ops # <<>>
    /\ Last(ops).op = "start_bootstrap"
    /\ Last(ops).clean
    /\ Last(ops).nconn = 0
    /\ \E c \in Targets(Last(ops).a, Last(ops).bl) :
          c \in services /\ listening_tcp[c] /\ ~connection_blocked(Last(ops).a, c)

C28_ConnectRequestIdempotent ==
    [][(PopStep /\ delivered'[1].pkt.kind = "ConnectRequest" /\ delivered'[1].recv # <<>>) =>
         LET d == delivered'[1]
             rev == <<d.r, d.s>>
             their_id == d.pkt.a
             held == \E i \in DOMAIN connections[d.r] : connections[d.r][i] = <<their_id, d.s>>
         IN /\ pending_bootstraps' = pending_bootstraps
            /\ \A k \in (Endpoints \X Endpoints) \ {rev} :
                  QSeq(queue', k) = IF k = <<d.s, d.r>> THEN Tail(queue[k]) ELSE QSeq(queue, k)
            /\ IF held
               THEN /\ connections' = connections
                    /\ events' = events
                    /\ QSeq(queue', rev) = QSeq(queue, rev)
                    /\ message_sent' = message_sent
               ELSE /\ connections' = [connections EXCEPT ![d.r] = Append(@, <<their_id, d.s>>)]
                    /\ events' = [events EXCEPT ![d.r] = Append(@, EvConnectSuccess(their_id))]
                    /\ QSeq(queue', rev) =
                          Append(QSeq(queue, rev),
                                 [pkt |-> ConnectSuccess(uid[d.r], their_id), sn |-> nsent])]_vars

\* C28 witness: a connect request was handed to a service already holding
\* the entry (two services called connect towards each other): the packet
\* enqueued last is no longer pending, so this pop enqueued none.
C28_Witness ==
    /\ phase = "polling"
    /\ delivered # <<>>
    /\ delivered[1].pkt.kind = "ConnectRequest"
    /\ delivered[1].recv # <<>>
    /\ Count(connections[delivered[1].r], <<delivered[1].pkt.a, delivered[1].s>>) = 1
    /\ Count(events[delivered[1].r], EvConnectSuccess(delivered[1].pkt.a)) = 1
    /\ \A x \in Items(queue) : queue[x[1]][x[2]].sn # nsent - 1

\* C29: a service calls connect on an empty queue towards a peer that is
\* released or whose pair is blocked, and poll runs: when poll has returned
\* the service got exactly one ConnectFailure, carrying the identity of the
\* peer (not its own), got no ConnectSuccess, and its list is as it was.
C29_FailedConnect ==
    (/\ phase = "returned"
     /\ ops # <<>>
     /\ Last(ops).op = "connect"
     /\ Last(ops).clean
     /\ \/ connection_blocked(Last(ops).a, Last(ops).b)
        \/ Last(ops).b \notin services)
    => LET e == Last(ops).a
       IN /\ Count(events[e], EvConnectFailure(Last(ops).u)) = 1
          /\ CountKind(events[e], "ConnectFailure") = 1
          /\ CountKind(events[e], "ConnectSuccess") = 0
          /\ Last(ops).u # uid[e]
          /\ connections[e] = Last(ops).conns

\* C29 witness: the connect of a service holding a connection went to a
\* live peer over a blocked pair and came back as the failure.
C29_Witness ==
    /\ phase = "returned"
    /\ ops # <<>>
    /\ Last(ops).op = "connect"
    /\ Last(ops).clean
    /\ connection_blocked(Last(ops).a, Last(ops).b)
    /\ Last(ops).b \in services
    /\ Last(ops).nconn = 1
    /\ events[Last(ops).a] = <<EvConnectFailure(uid[Last(ops).b])>>

\* C30: disconnect(uid) returns true exactly when the service held an entry
\* for uid; when it held none the call changes no list, no pending packet
\* and not the message-sent flag, and delivers no event.
C30_DisconnectUnknown ==
    [][(CallStep /\ Last(ops').op = "disconnect") =>
         LET e == Last(ops').a
             held == \E i \in DOMAIN connections[e] : connections[e][i][1] = Last(ops').u
         IN /\ Last(ops').ret = held
            /\ ~held => /\ connections' = connections
                        /\ queue' = queue
                        /\ message_sent' = message_sent
                        /\ events' = NoEvents
                        /\ pending_bootstraps' = pending_bootstraps]_vars

\* C30 witness: a service holding a connection, with packets pending,
\* called disconnect with an identity it holds no entry for.
C30_Witness ==
    /\ phase = "idle"
    /\ ops # <<>>
    /\ Last(ops).op = "disconnect"
    /\ ~Last(ops).ret
    /\ Last(ops).nconn >= 1
    /\ Len(connections[Last(ops).a]) = Last(ops).nconn
    /\ Pending(queue) # {}
    /\ message_sent

(***************************************************************************)
(* Teardown seen by the peers, symmetry, bootstrap outcomes and the shape  *)
(* of the connection lists.                                                *)
(***************************************************************************)
\* The events service r got by the step: all it holds after a call (a call
\* starts the record afresh), those appended by a pop.
NewEvents(r) ==
    IF CallStep THEN events'[r]
    ELSE IF PopStep THEN SubSeq(events'[r], Len(events[r]) + 1, Len(events'[r]))
    ELSE <<>>

\* C32: when poll has returned and no call has been made since, of two live
\* services each holds an entry for the other's endpoint or neither does.
C32_SymmetryAtQuiescence ==
    phase = "returned" =>
        \A a, b \in services : HasEntry(a, b) <=> HasEntry(b, a)

\* C33: when poll has returned, every service that called start_bootstrap
\* since poll last returned (and was not restarted or released after that)
\* has no outstanding bootstrap and got BootstrapConnect or BootstrapFailed:
\* at once, having no contact to send to, or during the poll.
C33_BootstrapOutcome ==
    phase = "returned" =>
        \A i \in DOMAIN ops :
            (/\ ops[i].op = "start_bootstrap"
             /\ \A j \in (i + 1) .. Len(ops) :
                   ops[j].a = ops[i].a => ops[j].op \notin {"start_bootstrap", "restart", "drop"})
            => LET e == ops[i].a
               IN /\ pending_bootstraps[e] = 0
                  /\ \/ Targets(e, ops[i].bl) = {}
                     \/ \E n \in DOMAIN events[e] :
                           events[e][n].ev \in {"BootstrapConnect", "BootstrapFailed"}

\* C34: every LostPeer a service gets, from a Disconnect handed to it or
\* from lost_connection, names the identity of an entry the service held
\* right before the step, and the step removes that entry.
C34_PeerLostNamesEntry ==
    [][\A r \in Endpoints :
         \A i \in DOMAIN NewEvents(r) :
            NewEvents(r)[i].ev = "LostPeer" =>
               \E j \in DOMAIN connections[r] :
                  /\ connections[r][j][1] = NewEvents(r)[i].uid
                  /\ connections'[r] = swap_remove(connections[r], j)]_vars

\* C35: no connection list holds two entries for one endpoint or two
\* entries for one identity.
C35_OneEntryPerPeer ==
    \A e \in Endpoints :
        \A i, j \in DOMAIN connections[e] :
            (\/ connections[e][i][1] = connections[e][j][1]
             \/ connections[e][i][2] = connections[e][j][2]) => i = j

\* C31: a service whose connections are all mutual is released or
\* restarted and poll runs next: when poll has returned every peer got
\* exactly one event, LostPeer naming the identity the service went by, and
\* holds no entry for the service's endpoint; nobody else got an event.
C31_TeardownObserved ==
    (/\ phase = "returned"
     /\ ops # <<>>
     /\ Last(ops).op \in {"drop", "restart"}
     /\ Last(ops).mutual)
    => LET d == Last(ops).a
           peers == {Last(ops).conns[i][2] : i \in DOMAIN Last(ops).conns}
       IN \A x \in Endpoints :
             IF x \in peers
             THEN /\ events[x] = <<EvLostPeer(Last(ops).me)>>
                  /\ ~HasEntry(x, d)
             ELSE events[x] = <<>>

============================================================================
